---- MODULE Spec2Model ----
(***************************************************************************)
(* Model of src/commands.ts (githd): the command handlers of CommandCenter *)
(* and the interactive prompts they chain, as a state machine.  Every      *)
(* command invocation is a flow; a flow is suspended at each prompt        *)
(* (showQuickPick / showInputBox) until the user answers, and other        *)
(* commands may be invoked meanwhile.                                      *)
(***************************************************************************)
EXTENDS Integers, Sequences, FiniteSets, Bags, TLC

(***************************************************************************)
(* Bounds of the model.                                                    *)
(***************************************************************************)
\* number of command invocations (flows) in one behaviour
MaxFlows == 2
\* largest number of repositories the git service knows
MaxRepos == 2
\* longest reference list drawn for the pick-list builder
MaxRefs == 2
\* number of CommandCenter objects constructed in one behaviour
MaxCenters == 2

(***************************************************************************)
(* JavaScript values: null, undefined and strings.  A string is a sequence *)
(* of one-character tokens; "NBSP" stands for the character U+00A0.        *)
(***************************************************************************)
Null == [k |-> "null", s |-> <<>>]
Undefined == [k |-> "undefined", s |-> <<>>]
Str(chars) == [k |-> "string", s |-> chars]

\* JavaScript truthiness of a value: null, undefined and "" are falsy
Truthy(v) == v.k = "string" /\ v.s # <<>>

SpaceChar == "NBSP"

\* String.prototype.repeat
RECURSIVE Repeat(_, _)
Repeat(c, n) == IF n = 0 THEN <<>> ELSE <<c>> \o Repeat(c, n - 1)

\* white space as String.prototype.trim sees it
IsWhiteSpace(c) == c \in {" ", SpaceChar}

RECURSIVE TrimStart(_)
TrimStart(s) ==
    IF s # <<>> /\ IsWhiteSpace(Head(s)) THEN TrimStart(Tail(s)) ELSE s

RECURSIVE TrimEnd(_)
TrimEnd(s) ==
    IF s # <<>> /\ IsWhiteSpace(s[Len(s)])
    THEN TrimEnd(SubSeq(s, 1, Len(s) - 1))
    ELSE s

\* String.prototype.trim
Trim(s) == TrimEnd(TrimStart(s))

(***************************************************************************)
(* The git service (reference catalog): repositories, paths, refs.         *)
(***************************************************************************)
\* an absent repository (null or undefined)
NoRepo == 0

NoPath == "undefined"
NullPath == "null"
Paths == {"file", "orphan"}

Main == <<"m", "a", "i", "n">>
V1 == <<"v", "1">>
Aaa == <<"a", "a", "a">>
Bbb == <<"b", "b", "b">>

RefTypes == {"Head", "Tag", "RemoteHead"}

\* the catalog of the running program: a local head and a tag
ProgramRefs ==
    << [type |-> "Head", name |-> Str(Main), commit |-> Aaa],
       [type |-> "Tag", name |-> Str(V1), commit |-> Bbb] >>

\* what the user may type into an input box
Texts == { <<>>, <<" ", "a", " ">> }

\* what git may answer for the current branch: undefined when detached
CurrentBranches == { Str(Main), Undefined }

VARIABLES
    repos,               \* gitService.getGitRepos()
    refs,                \* gitService.getRefs(repo)
    currentRef,          \* the current branch given to the pick-list builder
    filesViewContext,    \* Model.filesViewContext
    historyViewContext,  \* Model.historyViewContext: 0 or the object's id
    heap,                \* the HistoryViewContext objects, by id
    loadAll,             \* HistoryViewProvider.loadAll
    flows,               \* the bag of handlers suspended at a prompt
    invoked,             \* the number of command invocations so far
    last,                \* the handler that completed last, as it ended
    items,               \* the pick list built by selectBranch on its own
    listeners,           \* the host's live listeners of each command id
    centers,             \* the CommandCenter objects, in order of construction
    delivered            \* the command executed last and the handlers it ran

vars == << repos, refs, currentRef, filesViewContext, historyViewContext,
           heap, loadAll, flows, invoked, last, items, listeners, centers,
           delivered >>

\* every handler creates at most one HistoryViewContext object
ObjectIds == 1..MaxFlows

(***************************************************************************)
(* Pick items.                                                             *)
(***************************************************************************)
EnterShaLabel ==
    << "E", "n", "t", "e", "r", " ", "c", "o", "m", "m", "i", "t", " ",
       "S", "H", "A" >>

\* class EnterShaPickItem
EnterShaPickItem ==
    [k |-> "item", label |-> EnterShaLabel, description |-> Str(<<>>),
     openShaTextBox |-> TRUE]

\* the result of a dismissed showQuickPick
NoItem ==
    [k |-> "undefined", label |-> <<>>, description |-> Undefined,
     openShaTextBox |-> FALSE]

CheckMark == << "$", "(", "c", "h", "e", "c", "k", ")" >>
TagAt == << "T", "a", "g", " ", "a", "t", " " >>
RemoteBranchAt ==
    << "R", "e", "m", "o", "t", "e", " ", "b", "r", "a", "n", "c", "h", " ",
       "a", "t", " " >>

\* ref.name || ref.commit
RefLabel(ref) == IF Truthy(ref.name) THEN ref.name.s ELSE ref.commit

RefDescription(ref) ==
    IF ref.type = "Head" THEN Str(ref.commit)
    ELSE IF ref.type = "Tag" THEN Str(TagAt \o ref.commit)
    ELSE IF ref.type = "RemoteHead" THEN Str(RemoteBranchAt \o ref.commit)
    ELSE Undefined

\* branch.label === currentRef
IsCurrent(label, cur) == cur.k = "string" /\ cur.s = label

MarkedLabel(label, cur) ==
    (IF IsCurrent(label, cur)
     THEN CheckMark \o <<SpaceChar>>
     ELSE Repeat(SpaceChar, 4)) \o <<" ">> \o label

BranchItem(ref, cur, selectCurRef) ==
    [k |-> "item",
     label |-> IF selectCurRef THEN MarkedLabel(RefLabel(ref), cur)
               ELSE RefLabel(ref),
     description |-> RefDescription(ref),
     openShaTextBox |-> FALSE]

selectBranch(rs, cur, allowEnterSha, selectCurRef) ==
    LET mapped == [i \in 1..Len(rs) |-> BranchItem(rs[i], cur, selectCurRef)]
    IN  IF allowEnterSha THEN <<EnterShaPickItem>> \o mapped ELSE mapped

(***************************************************************************)
(* View contexts.                                                          *)
(***************************************************************************)
\* a FilesViewContext object literal
FilesViewContext(repo, leftRef, rightRef, specifiedPath) ==
    [repo |-> repo, leftRef |-> leftRef, rightRef |-> rightRef,
     specifiedPath |-> specifiedPath]

\* a HistoryViewContext object; absent fields are undefined
HistoryViewContext(repo, specifiedPath, branch, line) ==
    [repo |-> repo, specifiedPath |-> specifiedPath, branch |-> branch,
     author |-> Undefined, line |-> line]

NoObject == HistoryViewContext(NoRepo, NoPath, Undefined, 0)

\* gitService.getGitRepo(path): the repository a path lies in, if any
getGitRepo(path) ==
    IF path = "file" /\ repos # <<>> THEN repos[1] ELSE NoRepo

\* gitService.getAuthors(repo)
Authors == << [name |-> <<"A", "l">>, email |-> <<"e">>] >>

selectAuthor ==
    LET all == <<[name |-> <<"A", "l", "l">>, email |-> <<>>]>> \o Authors
    IN  [i \in 1..Len(all) |->
            [k |-> "item", label |-> all[i].name,
             description |-> Str(all[i].email), openShaTextBox |-> FALSE]]

(***************************************************************************)
(* The command table and its binding to the host's dispatcher.             *)
(***************************************************************************)
\* the ids the command decorators push as the class is defined, in order
Commands ==
    << "githd.clear", "githd.viewHistory", "githd.viewFileHistory",
       "githd.viewFolderHistory", "githd.viewLineHistory",
       "githd.viewAllHistory", "githd.viewBranchHistory",
       "githd.viewAuthorHistory", "githd.diffBranch", "githd.diffFile",
       "githd.diffFolder", "githd.inputRef", "githd.openCommittedFile",
       "githd.openLineDiff", "githd.setExpressMode" >>

CommandIds == { Commands[k] : k \in 1..Len(Commands) }

NoListeners == [id \in CommandIds |-> {}]

\* commands.registerCommand of the host, for center c: an id that has a live
\* listener is refused as a duplicate
registerCommand(ls, id, c) ==
    IF ls[id] # {}
    THEN [thrown |-> TRUE, listeners |-> ls]
    ELSE [thrown |-> FALSE, listeners |-> [ls EXCEPT ![id] = @ \cup {c}]]

\* Commands.map(...) in the constructor of center c, from the k-th command
\* on: the first refusal ends it
RECURSIVE BindFrom(_, _, _)
BindFrom(ls, c, k) ==
    IF k > Len(Commands)
    THEN [thrown |-> FALSE, listeners |-> ls]
    ELSE LET r == registerCommand(ls, Commands[k], c)
         IN  IF r.thrown THEN r ELSE BindFrom(r.listeners, c, k + 1)

\* a center whose constructor returned holds one disposable per command; one
\* whose constructor threw holds none
NewCenter(thrown) ==
    IF thrown THEN [status |-> "failed", disposables |-> {}]
    ELSE [status |-> "constructed", disposables |-> CommandIds]

\* variant: dispose releases the first disposable only
disposeFirst(ls, c, disposables) ==
    [ls EXCEPT ![Commands[1]] = @ \ {c}]

\* dispose of center c: every disposable removes the listener it stands for
dispose(ls, c, disposables) ==
    [id \in CommandIds |-> IF id \in disposables THEN ls[id] \ {c} ELSE ls[id]]

NotDelivered == [id |-> "none", handlers |-> {}]

(***************************************************************************)
(* Flows: one per command invocation.                                      *)
(***************************************************************************)
IdleFlow ==
    [cmd |-> "none", pc |-> "idle", outcome |-> "none",
     repo |-> NoRepo, path |-> NoPath, context |-> 0, src |-> NoItem,
     tgt |-> NoItem, leftRef |-> Undefined, cur |-> Undefined,
     shown |-> <<>>, answers |-> <<>>, npub |-> 0]


Started(f, cmd) == [f EXCEPT !.cmd = cmd]

\* the flow shows a prompt and is suspended until the user answers
Show(fl, prompt, pc) == [fl EXCEPT !.pc = pc, !.shown = Append(@, prompt)]

\* the user's answer to the prompt shown last: the index picked in a list
\* (0 when dismissed) or the value an input box resolved to
Answered(fl, pick, text) ==
    [fl EXCEPT !.answers = Append(@, [pick |-> pick, text |-> text])]

\* the handler returns (or throws) without publishing
End(fl, outcome) == [fl EXCEPT !.pc = "done", !.outcome = outcome]

Published(fl) ==
    [fl EXCEPT !.pc = "done", !.outcome = "published", !.npub = @ + 1]

\* the handler f (IdleFlow for a new invocation) runs up to its next
\* prompt or to its end, where it is fl; last records the handler that
\* completed last. Handlers have no identity beyond their locals, so the
\* suspended ones form a bag.
Step(f, fl) ==
    /\ flows' = LET others == IF f.pc = "idle" THEN flows
                              ELSE flows (-) SetToBag({f})
                IN  IF fl.pc = "done" THEN others
                    ELSE others (+) SetToBag({fl})
    /\ invoked' = IF f.pc = "idle" THEN invoked + 1 ELSE invoked
    /\ last' = IF fl.pc = "done" THEN fl ELSE last

\* objects no longer referenced by the model or a suspended flow are gone
Collect(h, current, fls) ==
    [id \in ObjectIds |->
        IF id = current \/ \E g \in BagToSet(fls) : g.context = id
        THEN h[id] ELSE NoObject]

\* the identity of an object created now
FreshId ==
    LET Referenced(id) ==
            \/ id = historyViewContext
            \/ \E g \in BagToSet(flows) : g.context = id
    IN  CHOOSE id \in ObjectIds :
            /\ ~Referenced(id)
            /\ \A j \in 1..(id - 1) : Referenced(j)

catalog == << repos, refs, currentRef, items >>
binding == << listeners, centers, delivered >>
history == << historyViewContext, loadAll >>

\* variant: a command waits until no handler is suspended
CanInvokeAlone(f) ==
    /\ f.pc = "idle"
    /\ invoked < MaxFlows
    /\ flows = EmptyBag

\* the handler of flow f may be invoked now: the host invokes commands one
\* after the other, and never waits for a handler to complete
CanInvoke(f) ==
    /\ f.pc = "idle"
    /\ invoked < MaxFlows

\* no state change beyond the flow itself
OnlyFlow(f, fl) ==
    /\ Step(f, fl)
    /\ heap' = Collect(heap, historyViewContext, flows')
    /\ UNCHANGED << filesViewContext, history, catalog, binding >>

\* this._model.filesViewContext = context
SetFilesViewContext(f, fl, context) ==
    /\ filesViewContext' = context
    /\ Step(f, Published(fl))
    /\ heap' = Collect(heap, historyViewContext, flows')
    /\ UNCHANGED << history, catalog, binding >>

\* variant: a full reload, once requested, stays requested
ViewHistoryKeepingAll(f, fl, id, obj, all) ==
    /\ loadAll' = (loadAll \/ all)
    /\ historyViewContext' = id
    /\ Step(f, Published(fl))
    /\ heap' = Collect(IF id = 0 THEN heap ELSE [heap EXCEPT ![id] = obj],
                       id, flows')
    /\ UNCHANGED << filesViewContext, catalog, binding >>

\* _viewHistory(context, all), for the object id with the fields obj
ViewHistoryOf(f, fl, id, obj, all) ==
    /\ loadAll' = all
    /\ historyViewContext' = id
    /\ Step(f, Published(fl))
    /\ heap' = Collect(IF id = 0 THEN heap ELSE [heap EXCEPT ![id] = obj],
                       id, flows')
    /\ UNCHANGED << filesViewContext, catalog, binding >>

RepoPickItems ==
    [i \in 1..Len(repos) |-> [k |-> "item", repo |-> repos[i]]]

\* the answers a pick list can get: 0 is a dismissal
Answers(list) == 0..Len(list)
Picked(list, i) == IF i = 0 THEN NoItem ELSE list[i]

\* the answers an input box can get: the text, or undefined when dismissed
InputBoxAnswers == {Undefined} \cup {Str(t) : t \in Texts}

\* selectBranch looks at the current branch only to mark the items, which
\* no caller asks for: where the list alone is used, the branch read is left
\* open as this one value
NoBranch == Undefined

\* variant: _choseBranchOnPick hands defaultRef on to selectBranch
choseBranchItemsMarking(cur, allowEnterSha, defaultRef) ==
    selectBranch(refs, cur, allowEnterSha, defaultRef)

\* _choseBranchOnPick builds its list without passing defaultRef on
choseBranchItems(cur, allowEnterSha, defaultRef) ==
    selectBranch(refs, cur, allowEnterSha, FALSE)

\* variant: a dismissed input box is turned into null
getRefOrNull(item, answer) ==
    IF item.openShaTextBox
    THEN (IF answer.k = "string" THEN answer ELSE Null)
    ELSE Str(item.label)

\* getRefFromQuickPickItem: answer is what the input box resolves to
getRefFromQuickPickItem(item, answer) ==
    IF item.openShaTextBox THEN answer ELSE Str(item.label)

(***************************************************************************)
(* githd.clear                                                             *)
(***************************************************************************)
\* variant: clear resets the two references only
ClearedRefsOnly ==
    [filesViewContext EXCEPT !.leftRef = Null, !.rightRef = Null]

\* the object literal of clear
ClearedContext == FilesViewContext(NoRepo, Null, Null, NullPath)

\* the files view shows nothing before the first command
InitialFilesViewContext == FilesViewContext(NoRepo, Null, Null, NullPath)

Clear(f) ==
    /\ CanInvoke(f)
    /\ SetFilesViewContext(f, Started(f, "clear"), ClearedContext)

(***************************************************************************)
(* selectGitRepo and the handlers that start with it.                      *)
(***************************************************************************)
\* variant: viewHistory without the test of the repository
ViewHistoryWithAnyRepo(f, fl, repo) ==
    ViewHistoryOf(f, fl, FreshId,
        HistoryViewContext(repo, NoPath, Undefined, 0), FALSE)

\* viewHistory, once the repository is known
ViewHistoryWith(f, fl, repo) ==
    IF repo # NoRepo
    THEN ViewHistoryOf(f, fl, FreshId,
            HistoryViewContext(repo, NoPath, Undefined, 0), FALSE)
    ELSE OnlyFlow(f, End(fl, "aborted"))

\* diffBranch, once the repository is known: the source pick list
DiffBranchWith(f, fl, repo) ==
    IF repo = NoRepo
    THEN OnlyFlow(f, End(fl, "aborted"))
    ELSE OnlyFlow(f, Show([fl EXCEPT !.repo = repo], "sourcePick", "srcPick"))

\* inputRef, once the repository is known: the input box
InputRefWith(f, fl, repo) ==
    IF repo = NoRepo
    THEN OnlyFlow(f, End(fl, "aborted"))
    ELSE OnlyFlow(f, Show([fl EXCEPT !.repo = repo], "input", "text"))

\* viewBranchHistory without a context, once the repository is known
ViewBranchHistoryWith(f, fl, repo) ==
    IF repo = NoRepo
    THEN OnlyFlow(f, End(fl, "aborted"))
    ELSE OnlyFlow(f, Show([fl EXCEPT !.repo = repo], "refPick", "refPick"))

\* variant: selectGitRepo without the test for no repository
selectGitRepoOfferingNone(rs) ==
    IF Len(rs) = 1 THEN [k |-> "resolved", repo |-> rs[1]]
    ELSE [k |-> "showQuickPick", repo |-> NoRepo]

\* variant: selectGitRepo without the shortcut for a single repository
selectGitRepoAlwaysAsking(rs) ==
    IF Len(rs) = 0 THEN [k |-> "null", repo |-> NoRepo]
    ELSE [k |-> "showQuickPick", repo |-> NoRepo]

\* selectGitRepo: null without repositories, a resolved promise for a single
\* one, the promise of a pick list otherwise
selectGitRepo(rs) ==
    IF Len(rs) = 0 THEN [k |-> "null", repo |-> NoRepo]
    ELSE IF Len(rs) = 1 THEN [k |-> "resolved", repo |-> rs[1]]
    ELSE [k |-> "showQuickPick", repo |-> NoRepo]

\* the callback each handler passes to then
ThenWith(f, fl, repo) ==
    CASE fl.cmd = "viewHistory" -> ViewHistoryWith(f, fl, repo)
      [] fl.cmd = "diffBranch" -> DiffBranchWith(f, fl, repo)
      [] fl.cmd = "inputRef" -> InputRefWith(f, fl, repo)
      [] fl.cmd = "viewBranchHistory" -> ViewBranchHistoryWith(f, fl, repo)

\* selectGitRepo(...).then(...): null has no then
SelectGitRepoThen(f, fl) ==
    LET selected == selectGitRepo(repos)
    IN  IF selected.k = "null" THEN OnlyFlow(f, End(fl, "error"))
        ELSE IF selected.k = "resolved" THEN ThenWith(f, fl, selected.repo)
        ELSE OnlyFlow(f, Show(fl, "repoPick", "repoPick"))

ViewHistory(f) ==
    /\ CanInvoke(f)
    /\ SelectGitRepoThen(f, Started(f, "viewHistory"))

DiffBranch(f) ==
    /\ CanInvoke(f)
    /\ SelectGitRepoThen(f, Started(f, "diffBranch"))

InputRef(f) ==
    /\ CanInvoke(f)
    /\ SelectGitRepoThen(f, Started(f, "inputRef"))

\* the user answers the repository pick list of selectGitRepo
RepoPicked(f) ==
    /\ f.pc = "repoPick"
    /\ \E i \in Answers(RepoPickItems) :
          LET repo == IF i = 0 THEN NoRepo ELSE RepoPickItems[i].repo
              fl == Answered(f, i, Undefined)
          IN  ThenWith(f, fl, repo)

(***************************************************************************)
(* githd.diffBranch                                                        *)
(***************************************************************************)
\* getRefFromQuickPickItem(targetBranch, ...) and the publication
ResolveTarget(f, fl) ==
    IF fl.tgt.openShaTextBox
    THEN OnlyFlow(f, Show(fl, "targetInput", "tgtText"))
    ELSE SetFilesViewContext(f, fl,
            FilesViewContext(fl.repo, fl.leftRef,
                getRefFromQuickPickItem(fl.tgt, Undefined), NullPath))

\* getRefFromQuickPickItem(sourceBranch, ...)
ResolveSource(f, fl) ==
    IF fl.src.openShaTextBox
    THEN OnlyFlow(f, Show(fl, "sourceInput", "srcText"))
    ELSE ResolveTarget(f,
            [fl EXCEPT !.leftRef = getRefFromQuickPickItem(fl.src, Undefined)])

\* the source named in the placeholder of the target pick list:
\* `... to compare with ${sourceBranch.label} (...)`
TargetPlaceHolder(fl) == fl.src.label

\* the user answers the source pick list
SourcePicked(f) ==
    /\ f.pc = "srcPick"
    /\ \E i \in 0..(Len(refs) + 1) :
          LET sourceBranch == Picked(choseBranchItems(NoBranch, TRUE, TRUE), i)
              fl == Answered(f, i, Undefined)
          IN  IF sourceBranch.k = "undefined"
              THEN OnlyFlow(f, End(fl, "invalid"))
              ELSE OnlyFlow(f, Show([fl EXCEPT !.src = sourceBranch],
                                    "targetPick", "tgtPick"))

\* the user answers the target pick list
TargetPicked(f) ==
    /\ f.pc = "tgtPick"
    /\ \E i \in 0..(Len(refs) + 1) :
          LET targetBranch == Picked(choseBranchItems(NoBranch, TRUE, FALSE), i)
              fl == Answered(f, i, Undefined)
          IN  IF targetBranch.k = "undefined"
              THEN OnlyFlow(f, End(fl, "invalid"))
              ELSE ResolveSource(f, [fl EXCEPT !.tgt = targetBranch])

\* the user answers the input box of the source ref
SourceEntered(f) ==
    /\ f.pc = "srcText"
    /\ \E answer \in InputBoxAnswers :
          ResolveTarget(f,
            [Answered(f, 0, answer) EXCEPT
                !.leftRef = getRefFromQuickPickItem(f.src, answer)])

\* the user answers the input box of the target ref
TargetEntered(f) ==
    /\ f.pc = "tgtText"
    /\ \E answer \in InputBoxAnswers :
          SetFilesViewContext(f, Answered(f, 0, answer),
            FilesViewContext(f.repo, f.leftRef,
                getRefFromQuickPickItem(f.tgt, answer), NullPath))

(***************************************************************************)
(* githd.diffFile (and githd.diffFolder, which forwards to it)             *)
(***************************************************************************)
PathArgs == Paths \cup {NoPath}

\* the publication of diffFile, guarded by "if (!leftRef) return"
DiffFilePublish(f, fl, leftRef) ==
    IF ~Truthy(leftRef)
    THEN OnlyFlow(f, End(fl, "aborted"))
    ELSE SetFilesViewContext(f, fl,
            FilesViewContext(fl.repo, leftRef, fl.cur, fl.path))

\* getRefs of an absent repository is outside this module: the list may be
\* shown or the query may fail
DiffFile(f) ==
    /\ CanInvoke(f)
    /\ \E specifiedPath \in PathArgs :
          LET fl == Started(f, "diffFile")
              repo == getGitRepo(specifiedPath)
          IN  IF specifiedPath = NoPath
              THEN OnlyFlow(f, End(fl, "aborted"))
              ELSE \/ OnlyFlow(f, Show([fl EXCEPT !.path = specifiedPath,
                                                  !.repo = repo],
                                       "refPick", "refPick"))
                   \/ /\ repo = NoRepo
                      /\ OnlyFlow(f, End(fl, "error"))

\* the user answers the ref pick list of diffFile
DiffFilePicked(f) ==
    /\ f.cmd = "diffFile"
    /\ f.pc = "refPick"
    /\ \E cur \in CurrentBranches, i \in 0..(Len(refs) + 1) :
          LET item == Picked(selectBranch(refs, cur, TRUE, FALSE), i)
              fl == [Answered(f, i, Undefined) EXCEPT
                        !.src = item, !.cur = cur]
          IN  IF item.k = "undefined"
              THEN OnlyFlow(f, End(Answered(f, i, Undefined),
                                   "aborted"))
              ELSE IF item.openShaTextBox
              THEN OnlyFlow(f, Show(fl, "refInput", "text"))
              ELSE DiffFilePublish(f, fl,
                      getRefFromQuickPickItem(item, Undefined))

\* the user answers the input box of diffFile
DiffFileEntered(f) ==
    /\ f.cmd = "diffFile"
    /\ f.pc = "text"
    /\ \E answer \in InputBoxAnswers :
          DiffFilePublish(f, Answered(f, 0, answer),
              getRefFromQuickPickItem(f.src, answer))

(***************************************************************************)
(* githd.inputRef                                                          *)
(***************************************************************************)
\* the user answers the input box of inputRef; undefined has no trim
InputRefEntered(f) ==
    /\ f.cmd = "inputRef"
    /\ f.pc = "text"
    /\ \E ref \in InputBoxAnswers :
          IF ref.k # "string"
          THEN OnlyFlow(f, End(Answered(f, 0, ref), "error"))
          ELSE SetFilesViewContext(f, Answered(f, 0, ref),
                  FilesViewContext(f.repo, Null, Str(Trim(ref.s)),
                                   NullPath))

(***************************************************************************)
(* The history commands.                                                   *)
(***************************************************************************)
\* githd.viewFileHistory (and githd.viewFolderHistory): specifiedPath is the
\* argument or, by default, the active editor's document, if any
ViewFileHistory(f) ==
    /\ CanInvoke(f)
    /\ \E specifiedPath \in PathArgs :
          LET fl == Started(f, "viewFileHistory")
          IN  IF specifiedPath = NoPath
              THEN OnlyFlow(f, End(fl, "aborted"))
              ELSE ViewHistoryOf(f, fl, FreshId,
                      HistoryViewContext(getGitRepo(specifiedPath),
                          specifiedPath, Undefined, 0), FALSE)

\* githd.viewLineHistory: file is the argument or, by default, the active
\* editor's document; the line is that of the active editor's cursor, if
\* there is an active editor
ViewLineHistory(f) ==
    /\ CanInvoke(f)
    /\ \E file \in PathArgs, line \in 0..1 :
          LET fl == Started(f, "viewLineHistory")
          IN  IF file = NoPath \/ line = 0
              THEN OnlyFlow(f, End(fl, "aborted"))
              ELSE ViewHistoryOf(f, fl, FreshId,
                      HistoryViewContext(getGitRepo(file), file, Undefined,
                          line), FALSE)

\* githd.viewAllHistory
ViewAllHistory(f) ==
    /\ CanInvoke(f)
    /\ LET fl == Started(f, "viewAllHistory")
       IN  IF historyViewContext # 0
           THEN ViewHistoryOf(f, fl, historyViewContext,
                    heap[historyViewContext], TRUE)
           ELSE ViewHistoryOf(f, fl, FreshId,
                    HistoryViewContext(
                        IF repos # <<>> THEN repos[1] ELSE NoRepo,
                        NoPath, Undefined, 0), TRUE)

\* githd.viewBranchHistory: the host passes the current context or nothing
ViewBranchHistory(f) ==
    /\ CanInvoke(f)
    /\ \E context \in {0, historyViewContext} :
          LET fl == [Started(f, "viewBranchHistory") EXCEPT
                        !.context = context]
          IN  IF context # 0
              THEN IF heap[context].repo = NoRepo
                   THEN OnlyFlow(f, End(fl, "error"))
                   ELSE OnlyFlow(f,
                          Show([fl EXCEPT !.repo = heap[context].repo],
                               "refPick", "refPick"))
              ELSE LET selected == selectGitRepo(repos)
                   IN  IF selected.k = "showQuickPick"
                       THEN OnlyFlow(f, Show(fl, "repoPick", "repoPick"))
                       ELSE ViewBranchHistoryWith(f, fl, selected.repo)

\* the user answers the ref pick list of viewBranchHistory
BranchHistoryPicked(f) ==
    /\ f.cmd = "viewBranchHistory"
    /\ f.pc = "refPick"
    /\ \E i \in 0..Len(refs) :
          LET item == Picked(selectBranch(refs, NoBranch, FALSE, FALSE), i)
              fl == Answered(f, i, Undefined)
          IN  IF item.k = "undefined"
              THEN OnlyFlow(f, End(fl, "aborted"))
              ELSE IF fl.context # 0
              THEN ViewHistoryOf(f, fl, fl.context,
                      [heap[fl.context] EXCEPT !.branch = Str(item.label)],
                      FALSE)
              ELSE ViewHistoryOf(f, fl, FreshId,
                      HistoryViewContext(fl.repo, NoPath, Str(item.label), 0),
                      FALSE)

\* githd.viewAuthorHistory without its assertion
ViewAuthorHistoryUnasserted(f) ==
    /\ CanInvoke(f)
    /\ OnlyFlow(f, Show([Started(f, "viewAuthorHistory") EXCEPT
                            !.context = historyViewContext],
                       "authorPick", "authorPick"))

\* githd.viewAuthorHistory
ViewAuthorHistory(f) ==
    /\ CanInvoke(f)
    /\ LET fl == Started(f, "viewAuthorHistory")
       IN  IF historyViewContext = 0
           THEN OnlyFlow(f, End(fl, "error"))
           ELSE OnlyFlow(f,
                  Show([fl EXCEPT !.context = historyViewContext,
                                  !.repo = heap[historyViewContext].repo],
                       "authorPick", "authorPick"))

\* the user answers the author pick list
AuthorPicked(f) ==
    /\ f.pc = "authorPick"
    /\ \E i \in Answers(selectAuthor) :
          LET item == Picked(selectAuthor, i)
              context == historyViewContext
              fl == Answered(f, i, Undefined)
          IN  IF item.k = "undefined"
              THEN OnlyFlow(f, End(fl, "aborted"))
              ELSE ViewHistoryOf(f, fl, context,
                      IF context # 0
                      THEN [heap[context] EXCEPT !.author = item.description]
                      ELSE NoObject,
                      FALSE)

(***************************************************************************)
(* The pick-list builder on its own: selectBranch applied to any short     *)
(* list of references and any current branch.                              *)
(***************************************************************************)
RefNames == { Str(Main), Str(V1), Undefined }

RefUniverse ==
    { [type |-> t, name |-> n, commit |-> Aaa] : t \in RefTypes, n \in RefNames }

\* the lists of at most n references; git keeps one reference per type and
\* name, while a head and a tag may share their name
RECURSIVE RefLists(_)
RefLists(n) ==
    IF n = 0 THEN { <<>> }
    ELSE LET shorter == RefLists(n - 1)
             longest == { l \in shorter : Len(l) = n - 1 }
         IN  shorter \cup
             { Append(p[1], p[2]) :
                 p \in { q \in longest \X RefUniverse :
                            \A i \in 1..Len(q[1]) : q[1][i] # q[2] } }

NotBuilt ==
    [built |-> FALSE, allowEnterSha |-> FALSE, selectCurRef |-> FALSE,
     list |-> <<>>]

BuildRefChoices ==
    /\ ~items.built
    /\ \E allowEnterSha \in BOOLEAN, selectCurRef \in BOOLEAN :
          items' = [built |-> TRUE, allowEnterSha |-> allowEnterSha,
                    selectCurRef |-> selectCurRef,
                    list |-> selectBranch(refs, currentRef, allowEnterSha,
                                          selectCurRef)]
    /\ UNCHANGED << repos, refs, currentRef, filesViewContext,
                    historyViewContext, heap, loadAll, flows, invoked, last,
                    binding >>

InitPickList ==
    /\ refs \in RefLists(MaxRefs)
    /\ currentRef \in CurrentBranches \cup { Str(V1) }
    /\ items = NotBuilt
    /\ repos = <<1>>
    /\ filesViewContext = InitialFilesViewContext
    /\ historyViewContext = 0
    /\ heap = [id \in ObjectIds |-> NoObject]
    /\ loadAll = FALSE
    /\ flows = EmptyBag
    /\ invoked = 0
    /\ last = IdleFlow
    /\ listeners = BindFrom(NoListeners, 1, 1).listeners
    /\ centers = << NewCenter(FALSE) >>
    /\ delivered = NotDelivered

NextPickList == BuildRefChoices

SpecPickList == InitPickList /\ [][NextPickList]_vars

(***************************************************************************)
(* The binding on its own: command centers are constructed and disposed    *)
(* and the host executes commands.                                         *)
(***************************************************************************)
program == << repos, refs, currentRef, filesViewContext, historyViewContext,
              heap, loadAll, flows, invoked, last, items >>

\* new CommandCenter(...)
Construct ==
    /\ Len(centers) < MaxCenters
    /\ LET c == Len(centers) + 1
           bound == BindFrom(listeners, c, 1)
       IN  /\ listeners' = bound.listeners
           /\ centers' = Append(centers, NewCenter(bound.thrown))
    /\ UNCHANGED << delivered, program >>

\* dispose() of a center whose constructor returned
Dispose ==
    \E c \in 1..Len(centers) :
        /\ centers[c].status # "failed"
        /\ listeners' = dispose(listeners, c, centers[c].disposables)
        /\ centers' = [centers EXCEPT ![c].status = "disposed"]
        /\ UNCHANGED << delivered, program >>

\* the host executes a command: every live listener of the id applies its
\* center's method
ExecuteCommand ==
    \E id \in CommandIds :
        /\ delivered' = [id |-> id, handlers |-> listeners[id]]
        /\ UNCHANGED << listeners, centers, program >>

InitBinding ==
    /\ repos = <<1>>
    /\ refs = ProgramRefs
    /\ currentRef = Undefined
    /\ filesViewContext = InitialFilesViewContext
    /\ historyViewContext = 0
    /\ heap = [id \in ObjectIds |-> NoObject]
    /\ loadAll = FALSE
    /\ flows = EmptyBag
    /\ invoked = 0
    /\ last = IdleFlow
    /\ items = NotBuilt
    /\ listeners = NoListeners
    /\ centers = << >>
    /\ delivered = NotDelivered

NextBinding == Construct \/ Dispose \/ ExecuteCommand

SpecBinding == InitBinding /\ [][NextBinding]_vars

(***************************************************************************)
(* The program.                                                            *)
(***************************************************************************)
Init ==
    /\ repos \in {[i \in 1..n |-> i] : n \in 0..MaxRepos}
    /\ refs = ProgramRefs
    /\ currentRef = Undefined
    /\ filesViewContext = InitialFilesViewContext
    /\ historyViewContext = 0
    /\ heap = [id \in ObjectIds |-> NoObject]
    /\ loadAll = FALSE
    /\ flows = EmptyBag
    /\ invoked = 0
    /\ last = IdleFlow
    /\ items = NotBuilt
    /\ listeners = BindFrom(NoListeners, 1, 1).listeners
    /\ centers = << NewCenter(FALSE) >>
    /\ delivered = NotDelivered

Next ==
    \E f \in {IdleFlow} \cup BagToSet(flows) :
        \/ Clear(f)
        \/ ViewHistory(f)
        \/ ViewFileHistory(f)
        \/ ViewLineHistory(f)
        \/ ViewAllHistory(f)
        \/ ViewBranchHistory(f)
        \/ BranchHistoryPicked(f)
        \/ ViewAuthorHistory(f)
        \/ AuthorPicked(f)
        \/ DiffBranch(f)
        \/ SourcePicked(f)
        \/ TargetPicked(f)
        \/ SourceEntered(f)
        \/ TargetEntered(f)
        \/ DiffFile(f)
        \/ DiffFilePicked(f)
        \/ DiffFileEntered(f)
        \/ InputRef(f)
        \/ InputRefEntered(f)
        \/ RepoPicked(f)

Spec == Init /\ [][Next]_vars

(***************************************************************************)
(* The program from the state in which view-history, with every repository *)
(* of the catalog present, has published the History Context of the        *)
(* repository picked: invoked counts the invocations since then.           *)
(***************************************************************************)
InitAuthor ==
    /\ repos = [i \in 1..MaxRepos |-> i]
    /\ refs = ProgramRefs
    /\ currentRef = Undefined
    /\ filesViewContext = InitialFilesViewContext
    /\ historyViewContext = 1
    /\ \E i \in 1..MaxRepos :
          /\ heap = [id \in ObjectIds |->
                       IF id = 1
                       THEN HistoryViewContext(repos[i], NoPath, Undefined, 0)
                       ELSE NoObject]
          /\ last = Published(Answered(
                        Show(Started(IdleFlow, "viewHistory"),
                             "repoPick", "repoPick"), i, Undefined))
    /\ loadAll = FALSE
    /\ flows = EmptyBag
    /\ invoked = 0
    /\ items = NotBuilt
    /\ listeners = BindFrom(NoListeners, 1, 1).listeners
    /\ centers = << NewCenter(FALSE) >>
    /\ delivered = NotDelivered

SpecAuthor == InitAuthor /\ [][Next]_vars

(***************************************************************************)
(* Properties.                                                             *)
(***************************************************************************)
\* the prompt was shown by the handler and the user has answered it
Asked(fl, prompt) ==
    \E k \in 1..Len(fl.answers) : fl.shown[k] = prompt

AnswerTo(fl, prompt) ==
    fl.answers[CHOOSE k \in 1..Len(fl.answers) : fl.shown[k] = prompt]

PickLists == {"repoPick", "sourcePick", "targetPick", "refPick", "authorPick"}
ManualEntryPrompts == {"sourceInput", "targetInput", "refInput"}

\* the user dismissed the k-th prompt of the handler, a pick list
DismissedAt(fl, k) ==
    /\ k \in 1..Len(fl.answers)
    /\ fl.shown[k] \in PickLists
    /\ fl.answers[k].pick = 0

\* the reference the user picked in a list that starts with the manual-entry
\* item
PickedRef(fl, prompt) == refs[AnswerTo(fl, prompt).pick - 1]

PickedRealRef(fl, prompt) ==
    /\ Asked(fl, prompt)
    /\ AnswerTo(fl, prompt).pick >= 2

\* this step completes a handler, whose record is last'
Completion ==
    BagCardinality(flows') - BagCardinality(flows) = invoked' - invoked - 1

\* the history context the view layer sees
CurrentHistoryContext ==
    [id |-> historyViewContext,
     object |-> IF historyViewContext = 0 THEN NoObject
                ELSE heap[historyViewContext]]

PublishedFilesBy(cmds) == last.cmd \in cmds /\ last.outcome = "published"

\* C1: no Files-Diff Context published by diff-branch, diff-file or
\* input-ref has an absent rightRef (null, undefined or empty), whatever its
\* leftRef is. (clear publishes the empty context, see C9.)
C1_RightRefNeverAbsent ==
    PublishedFilesBy({"diffBranch", "diffFile", "inputRef"})
        => Truthy(filesViewContext.rightRef)

\* C2: a handler whose user took the manual-entry item and then cancelled the
\* free-text prompt, or submitted the empty text, publishes no context.
C2_NoPublishWithoutText ==
    \A p \in ManualEntryPrompts :
        (Asked(last, p) /\ ~Truthy(AnswerTo(last, p).text))
            => (last.outcome # "published" /\ last.npub = 0)

\* C3: when the user dismisses a pick list, the handler shows no further
\* prompt and ends, and neither the Files-Diff Context nor the History
\* Context changes in that step.
C3_DismissalChangesNothing ==
    [][ /\ \A g \in BagToSet(flows') :
              \A k \in 1..Len(g.answers) : ~DismissedAt(g, k)
        /\ (Completion /\ \E k \in 1..Len(last'.answers) : DismissedAt(last', k))
              => (/\ DismissedAt(last', Len(last'.shown))
                  /\ last'.npub = 0
                  /\ filesViewContext' = filesViewContext
                  /\ CurrentHistoryContext' = CurrentHistoryContext
                  /\ loadAll' = loadAll) ]_vars

\* a diff-branch flow was cancelled at the target list while the Files-Diff
\* Context held a published diff
C3_Witness ==
    /\ last.cmd = "diffBranch"
    /\ DismissedAt(last, Len(last.shown))
    /\ last.shown[Len(last.shown)] = "targetPick"
    /\ Truthy(filesViewContext.rightRef)

\* the repository selectGitRepo resolved for the handler
ResolvedRepo(fl) ==
    IF Len(repos) = 1 THEN repos[1]
    ELSE repos[AnswerTo(fl, "repoPick").pick]

\* C4: diff-branch with a real ref S picked as source and a real ref T as
\* target publishes exactly one Files-Diff Context: leftRef = S, rightRef = T,
\* repo = the repository resolved at the start, specifiedPath null.
C4_DiffBranchPublishesPicks ==
    (/\ last.cmd = "diffBranch"
     /\ PickedRealRef(last, "sourcePick")
     /\ PickedRealRef(last, "targetPick"))
    => (/\ last.outcome = "published"
        /\ last.npub = 1
        /\ filesViewContext =
             [repo |-> ResolvedRepo(last),
              leftRef |-> PickedRef(last, "sourcePick").name,
              rightRef |-> PickedRef(last, "targetPick").name,
              specifiedPath |-> NullPath])

\* source "main", target "v1", as in the scenario
C4_Witness ==
    /\ last.cmd = "diffBranch"
    /\ PickedRealRef(last, "sourcePick")
    /\ PickedRealRef(last, "targetPick")
    /\ filesViewContext.leftRef = Str(Main)
    /\ filesViewContext.rightRef = Str(V1)

RepoSelectingCommands ==
    {"viewHistory", "viewBranchHistory", "diffBranch", "inputRef"}

\* the handler started with selectGitRepo
SelectsRepo(fl) ==
    /\ fl.cmd \in RepoSelectingCommands
    /\ (fl.cmd = "viewBranchHistory") => (fl.context = 0)

\* C5: with no known repository, repository selection yields null and every
\* command that starts with it ends without a prompt and without publishing.
C5_NoRepositoryNoPrompt ==
    [][ (repos = <<>>) =>
        (/\ selectGitRepo(repos).k = "null"
         /\ \A g \in BagToSet(flows') : ~SelectsRepo(g)
         /\ (Completion /\ SelectsRepo(last'))
               => (/\ last'.shown = <<>>
                   /\ last'.npub = 0
                   /\ filesViewContext' = filesViewContext
                   /\ CurrentHistoryContext' = CurrentHistoryContext)) ]_vars

C5_Witness ==
    /\ repos = <<>>
    /\ last.cmd = "diffBranch"
    /\ last.pc = "done"
    /\ invoked = MaxFlows

\* C6: with exactly one known repository, repository selection returns it and
\* no repository list is presented; a repository list is presented only
\* when there are two or more.
C6_SingleRepositoryNoList ==
    \A g \in BagToSet(flows) \cup {last} :
        /\ (\E k \in 1..Len(g.shown) : g.shown[k] = "repoPick")
              => (Len(repos) >= 2)
        /\ (Len(repos) = 1 /\ SelectsRepo(g) /\ g.cmd # "viewHistory")
              => (g.repo = repos[1])
        /\ (Len(repos) = 1 /\ g.cmd = "viewHistory" /\ g.pc = "done")
              => (/\ g.outcome = "published"
                  /\ historyViewContext # 0
                  /\ heap[historyViewContext].repo = repos[1])

C6_Witness ==
    /\ Len(repos) = 1
    /\ last.cmd = "viewHistory"
    /\ \E g \in BagToSet(flows) : g.cmd = "diffBranch" /\ g.repo = repos[1]

\* the label carries the mark of the current branch
IsMarked(item) ==
    /\ Len(item.label) >= Len(CheckMark)
    /\ SubSeq(item.label, 1, Len(CheckMark)) = CheckMark

\* the references whose pick item is marked: the manual-entry item, when
\* there is one, comes first
MarkedRefs ==
    LET first == IF items.allowEnterSha THEN 1 ELSE 0
    IN  { i \in 1..Len(refs) : IsMarked(items.list[first + i]) }

\* the references named like the current branch
RefsNamedCurrent ==
    { i \in 1..Len(refs) :
        currentRef.k = "string" /\ refs[i].name = currentRef }

\* C7: built with markCurrent, exactly one pick item is marked current iff
\* some reference's name equals the current branch name, and it is the item
\* of the first such reference; otherwise no item is marked.
C7_ExactlyOneMarked ==
    (items.built /\ items.selectCurRef)
    => (/\ Len(items.list) = Len(refs) + (IF items.allowEnterSha THEN 1 ELSE 0)
        /\ IF RefsNamedCurrent # {}
           THEN MarkedRefs =
                   { CHOOSE i \in RefsNamedCurrent :
                        \A j \in RefsNamedCurrent : i <= j }
           ELSE MarkedRefs = {})

\* C8: where the manual-entry item is offered, taking it and submitting a
\* non-empty text publishes the text with leading and trailing white space
\* removed as that round's reference; submitting "" aborts the round.
C8_ManualEntryTrimmed ==
    \A p \in ManualEntryPrompts :
        (Asked(last, p) /\ AnswerTo(last, p).text.k = "string")
        => LET text == AnswerTo(last, p).text.s
               published == IF p = "targetInput"
                            THEN filesViewContext.rightRef
                            ELSE filesViewContext.leftRef
           IN  IF text = <<>>
               THEN last.outcome # "published"
               ELSE (last.outcome = "published")
                        => (published = Str(Trim(text)))

\* C9: clear results in a Files-Diff Context whose repository, leftRef,
\* rightRef and specifiedPath are all null, whatever the state it is invoked
\* in.
C9_ClearPublishesNulls ==
    [][ (Completion /\ last'.cmd = "clear")
        => filesViewContext' =
              [repo |-> NoRepo, leftRef |-> Null, rightRef |-> Null,
               specifiedPath |-> NullPath] ]_vars

\* clear ran while another flow was suspended at its prompt
C9_Witness ==
    /\ last.cmd = "clear"
    /\ last.outcome = "published"
    /\ flows # EmptyBag
    /\ filesViewContext.repo = NoRepo
    /\ filesViewContext.specifiedPath = NullPath

BothRefsNull ==
    filesViewContext.leftRef = Null /\ filesViewContext.rightRef = Null

HistoryCommands ==
    {"viewHistory", "viewFileHistory", "viewLineHistory", "viewAllHistory",
     "viewBranchHistory", "viewAuthorHistory"}

\* the object is the model's current context or held by a suspended handler
Referenced(id) ==
    \/ id = historyViewContext
    \/ \E g \in BagToSet(flows) : g.context = id

\* this step completes a history command that publishes
HistoryPublication ==
    /\ last'.outcome = "published"
    /\ last'.cmd \in HistoryCommands
    /\ Completion

\* C11: a published context is read-only: no step changes a field of a
\* History Context object published before, and every publication of a
\* History Context publishes an object created in that step.
C11_PublishedReadOnly ==
    [][ /\ \A id \in ObjectIds :
              Referenced(id) => (heap'[id] \in {heap[id], NoObject})
        /\ HistoryPublication
              => (historyViewContext' # 0 /\ ~Referenced(historyViewContext')) ]_vars

LiveCenters == { c \in 1..Len(centers) : centers[c].status = "constructed" }

\* C12: a constructed command center has exactly one live listener for
\* every command id, a disposed one has none, and constructing a center
\* while another is live fails as a duplicate registration and changes no
\* listener: no id ever has two live listeners, and a command executed
\* while a center is live runs exactly one handler.
C12_OneLiveListener ==
    [][ /\ \A id \in CommandIds : Cardinality(listeners'[id]) <= 1
        /\ \A c \in LiveCenters' : \A id \in CommandIds : listeners'[id] = {c}
        /\ (LiveCenters' = {}) => (listeners' = NoListeners)
        /\ (Len(centers') > Len(centers))
              => IF LiveCenters # {}
                 THEN /\ centers'[Len(centers')].status = "failed"
                      /\ listeners' = listeners
                 ELSE centers'[Len(centers')].status = "constructed"
        /\ (delivered' # delivered)
              => (Cardinality(delivered'.handlers) =
                    IF LiveCenters # {} THEN 1 ELSE 0) ]_vars

\* a second center was constructed while the first was live, and a command
\* executed since ran the first center's handler alone
C12_Witness ==
    /\ Len(centers) = 2
    /\ centers[1].status = "constructed"
    /\ centers[2].status = "failed"
    /\ delivered.handlers = {1}

FilesCommands == {"clear", "diffBranch", "diffFile", "inputRef"}

\* what a round resolved to: the text of the input box when the manual-entry
\* item was picked, the name of the picked reference otherwise
RoundValue(fl, list, input) ==
    IF AnswerTo(fl, list).pick = 1 THEN AnswerTo(fl, input).text
    ELSE PickedRef(fl, list).name

\* the Files-Diff Context a handler that published built from its own
\* arguments and answers
OwnFilesContext(fl) ==
    CASE fl.cmd = "clear" ->
           FilesViewContext(NoRepo, Null, Null, NullPath)
      [] fl.cmd = "inputRef" ->
           FilesViewContext(ResolvedRepo(fl), Null,
               Str(Trim(AnswerTo(fl, "input").text.s)), NullPath)
      [] fl.cmd = "diffBranch" ->
           FilesViewContext(ResolvedRepo(fl),
               RoundValue(fl, "sourcePick", "sourceInput"),
               RoundValue(fl, "targetPick", "targetInput"), NullPath)
      [] fl.cmd = "diffFile" ->
           FilesViewContext(getGitRepo(fl.path),
               RoundValue(fl, "refPick", "refInput"), fl.cur, fl.path)

\* this step completes a files command that publishes
FilesPublication ==
    /\ last'.outcome = "published"
    /\ last'.cmd \in FilesCommands
    /\ Completion

\* C13: command invocations are not serialized: a further command can be
\* invoked whatever handlers are suspended, a step of one handler (its
\* invocation or the answer to its prompt) leaves the others as they are, a
\* publication replaces the stored Files-Diff Context by the publishing
\* handler's own context as a whole, and no other step changes it: the
\* stored context is that of the handler that published last. Likewise the
\* History Context changes at the publications of history commands only.
C13_LastPublishWins ==
    [][ /\ (invoked < MaxFlows) => CanInvoke(IdleFlow)
        /\ IF invoked' # invoked THEN flows \sqsubseteq flows'
           ELSE /\ BagCardinality(flows (-) flows') = 1
                /\ BagCardinality(flows' (-) flows) <= 1
        /\ IF FilesPublication
           THEN filesViewContext' = OwnFilesContext(last')
           ELSE filesViewContext' = filesViewContext
        /\ IF HistoryPublication
           THEN historyViewContext' # 0
           ELSE /\ CurrentHistoryContext' = CurrentHistoryContext
                /\ loadAll' = loadAll ]_vars

\* diff-branch has gone on to its target list while an input-ref invoked
\* meanwhile waits at its input box
C13_Witness ==
    /\ \E g \in BagToSet(flows) : g.cmd = "diffBranch" /\ g.pc = "tgtPick"
    /\ \E g \in BagToSet(flows) : g.cmd = "inputRef" /\ g.pc = "text"

\* C14: view-author-history invoked while no History Context exists fails
\* its assertion: the handler ends with the error in that very step, having
\* presented no author list (nor any other prompt), and the Files-Diff
\* Context, the History Context and the full-reload flag are as before.
C14_AuthorHistoryNeedsContext ==
    [][ (invoked' # invoked /\ historyViewContext = 0)
           => /\ \A g \in BagToSet(flows' (-) flows) :
                    g.cmd # "viewAuthorHistory"
              /\ (last'.cmd = "viewAuthorHistory" /\ Completion)
                    => /\ last'.outcome = "error"
                       /\ last'.shown = <<>>
                       /\ filesViewContext' = filesViewContext
                       /\ historyViewContext' = 0
                       /\ loadAll' = loadAll ]_vars

\* view-author-history has failed its assertion, after a diff-file had
\* published a Files-Diff Context, which is still the stored one
C14_Witness ==
    /\ last.cmd = "viewAuthorHistory"
    /\ last.outcome = "error"
    /\ historyViewContext = 0
    /\ filesViewContext.repo # NoRepo

\* the pick lists that start with the manual-entry item, per command, and
\* the input box of the same round
ManualEntryLists(cmd) ==
    CASE cmd = "diffBranch" -> {"sourcePick", "targetPick"}
      [] cmd = "diffFile" -> {"refPick"}
      [] OTHER -> {}

InputBoxOf(list) ==
    CASE list = "sourcePick" -> "sourceInput"
      [] list = "targetPick" -> "targetInput"
      [] list = "refPick" -> "refInput"

\* C15: in the handler that completed last, every pick of the manual-entry
\* item was followed, before the handler ended, by the free-text prompt of
\* the same round.
C15_SentinelAlwaysPrompts ==
    \A k \in 1..Len(last.answers) :
        (/\ last.shown[k] \in ManualEntryLists(last.cmd)
         /\ last.answers[k].pick = 1)
           => \E j \in (k + 1)..Len(last.shown) :
                 last.shown[j] = InputBoxOf(last.shown[k])

\* C16: in every diff-branch handler, suspended or completed, the target
\* pick list was presented only after the source round had ended: the source
\* list was answered with an item and, when that item was the manual-entry
\* item, the source input box was shown and answered before the target list;
\* and the placeholder of the target list names the value the source round
\* resolved to (the text entered, or the label of the picked reference).
C16_SourceRoundFirst ==
    \A g \in BagToSet(flows) \cup {last} :
        (g.cmd = "diffBranch")
           => \A j \in 1..Len(g.shown) :
                 (g.shown[j] = "targetPick")
                    => \E k \in 1..(j - 1) :
                          /\ g.shown[k] = "sourcePick"
                          /\ g.answers[k].pick >= 1
                          /\ IF g.answers[k].pick = 1
                             THEN \E i \in (k + 1)..(j - 1) :
                                     /\ g.shown[i] = "sourceInput"
                                     /\ g.answers[i].text
                                           = Str(TargetPlaceHolder(g))
                             ELSE TargetPlaceHolder(g)
                                     = RefLabel(refs[g.answers[k].pick - 1])

InputBoxes == ManualEntryPrompts \cup {"input"}

\* the user dismissed the k-th prompt of the handler, a list or an input box
DismissedPrompt(fl, k) ==
    \/ DismissedAt(fl, k)
    \/ /\ k \in 1..Len(fl.answers)
       /\ fl.shown[k] \in InputBoxes
       /\ fl.answers[k].text = Undefined

\* C17: a dismissed prompt ends the handler without an error and without a
\* publication: in the handler that completed last, a dismissed prompt is
\* the last one it showed, and the handler returned without having thrown
\* and without having assigned a context.
C17_DismissalNeverAnError ==
    \A k \in 1..Len(last.answers) :
        DismissedPrompt(last, k)
           => /\ k = Len(last.shown)
              /\ last.outcome \in {"aborted", "invalid"}
              /\ last.npub = 0

\* C18: when the handler that completed last published a History Context,
\* the full-reload flag is as that publication set it: true if the command
\* was view-all-history, false for every other history command, whatever
\* ran before it or is suspended beside it.
C18_LoadAllOnlyForViewAll ==
    (last.cmd \in HistoryCommands /\ last.outcome = "published")
       => (loadAll <=> (last.cmd = "viewAllHistory"))

\* view-all-history has published, with the flag true, while a view-history
\* invoked before it is suspended at its repository list
C18_Witness ==
    /\ last.cmd = "viewAllHistory"
    /\ last.outcome = "published"
    /\ loadAll
    /\ historyViewContext # 0
    /\ \E g \in BagToSet(flows) : g.cmd = "viewHistory" /\ g.pc = "repoPick"

\* C19: the published History Context carries a repository: whenever a
\* History Context is stored, its repo field is a repository of the catalog.
C19_HistoryContextHasRepo ==
    (historyViewContext # 0) => (heap[historyViewContext].repo # NoRepo)

\* C20: when the handler that completed last is a view-author-history that
\* published, the stored History Context is one of the repository whose
\* author list the handler presented, with the picked author's email as its
\* filter.
C20_AuthorOfListedRepo ==
    (last.cmd = "viewAuthorHistory" /\ last.outcome = "published")
       => /\ historyViewContext # 0
          /\ heap[historyViewContext].repo = last.repo
          /\ heap[historyViewContext].author
                = selectAuthor[AnswerTo(last, "authorPick").pick].description

====
